---- MODULE Spec2Model ----
(***************************************************************************)
(* The Sankey component of packages/visx-sankey/src/Sankey.tsx as a state  *)
(* machine: one render is BeginRender, Configure, Layout, MakePath and     *)
(* then RenderOverride or RenderDefault, in the order of the function      *)
(* body.  The layout engine (d3-sankey) and the path generator (d3-shape)  *)
(* are external: the engine is the record of what its setters stored, and  *)
(* a root graph is indexed by the result the deterministic engine computes *)
(* for it (the bounds of its nodes, the widths of its links, or failure).  *)
(* Link widths and stroke widths are counted in half pixels (Px), so that  *)
(* a width strictly between 0 and 1 pixel is an integer.                   *)
(***************************************************************************)
EXTENDS Integers, Sequences, FiniteSets, TLC

VARIABLES pc, props, engine, calls, layoutCalls, layoutCfg, graph, pathGen,
          pathCalls, childrenCalls, output, thrown, carry

vars == <<pc, props, engine, calls, layoutCalls, layoutCfg, graph, pathGen,
          pathCalls, childrenCalls, output, thrown, carry>>

(* ------------------------------ bounds -------------------------------- *)
MaxNodes == 2

MaxLinks == 2

(* --------------------------- JavaScript values ------------------------ *)
Undef == [t |-> "undefined"]

Null == [t |-> "null"]

Num(n) == [t |-> "number", v |-> n]

Half == [t |-> "number", ratio |-> <<1, 2>>]

Str(s) == [t |-> "string", s |-> s]

Fn(name) == [t |-> "function", name |-> name]

Arr(a) == [t |-> "array", a |-> a]

Obj(o) == [t |-> "object", o |-> o]

EmptyObj == [k \in {} |-> Undef]

Px(n) == 2 * n

Max(a, b) == IF a >= b THEN a ELSE b

\* if (v): undefined, null and the number 0 are falsy; functions, arrays,
\* objects and non-zero numbers are truthy.
Truthy(v) ==
    /\ v.t \notin {"undefined", "null"}
    /\ ~(v.t = "number" /\ v.v = 0)

\* a ?? b
Coalesce(a, b) == IF a.t \in {"undefined", "null"} THEN b ELSE a

\* JSX attributes followed by {...spread}: the spread's own keys win.
MergeDefaultsWin(attrs, spread) ==
    [k \in DOMAIN attrs \cup DOMAIN spread |->
        IF k \in DOMAIN attrs THEN attrs[k] ELSE spread[k]]

Merge(attrs, spread) ==
    [k \in DOMAIN attrs \cup DOMAIN spread |->
        IF k \in DOMAIN spread THEN spread[k] ELSE attrs[k]]

DEFAULT_COLOR == Str("#000")

(* --------------------------- the layout engine ------------------------ *)
EngineDefault == [t |-> "default"]

EngineFields == {"nodeId", "nodeWidth", "nodePadding", "nodeAlign", "extent",
                 "iterations", "nodeSort", "linkSort"}

\* const sankey = d3sankey(): every setting at the engine's built-in default.
d3sankey == [f \in EngineFields |-> EngineDefault]

\* sankey.<opt>(v).  size is "a convenience method equivalent to using an
\* extent of [[0, 0], [width, height]]"; every other setter stores its value.
Setter(e, opt, v) ==
    IF opt = "size"
    THEN [e EXCEPT !["extent"] = Arr(<<<<0, 0>>, v.a>>)]
    ELSE [e EXCEPT ![opt] = v]

SetterOrderSizeFirst ==
    <<"nodeId", "nodeWidth", "nodePadding", "nodeAlign", "size", "extent",
      "iterations", "nodeSort", "linkSort">>

\* The order of the nine conditional setter statements.
SetterOrder ==
    <<"nodeId", "nodeWidth", "nodePadding", "nodeAlign", "extent", "size",
      "iterations", "nodeSort", "linkSort">>

Options == {SetterOrder[i] : i \in 1..Len(SetterOrder)}

\* if (opt) sankey.opt(opt), for the statements i..9 in order: the engine
\* and the log of setter invocations that result.
RECURSIVE Configured(_, _, _, _)
Configured(e, log, p, i) ==
    IF i > Len(SetterOrder)
    THEN [engine |-> e, calls |-> log]
    ELSE LET opt == SetterOrder[i]
         IN  IF Truthy(p[opt])
             THEN Configured(Setter(e, opt, p[opt]),
                             Append(log, [opt |-> opt, arg |-> p[opt]]), p, i + 1)
             ELSE Configured(e, log, p, i + 1)

(* --------------------------- the path generator ----------------------- *)
\* const path = sankeyLinkHorizontal()
sankeyLinkHorizontal == [source |-> EngineDefault, target |-> EngineDefault]

\* if (sourceAccessor) path.source(...); if (targetAccessor) path.target(...)
PathGenerator(p) ==
    [source |-> IF Truthy(p.sourceAccessor) THEN p.sourceAccessor
                ELSE sankeyLinkHorizontal.source,
     target |-> IF Truthy(p.targetAccessor) THEN p.targetAccessor
                ELSE sankeyLinkHorizontal.target]

\* path(link): a path string computed with the generator's accessors, or
\* null when the generator yields no path for the link.
PathOf(gen, link) ==
    IF link.pathless THEN Null
    ELSE [t |-> "string", s |-> "M", source |-> gen.source, target |-> gen.target]

(* --------------------------- default rendering ------------------------ *)
LinkStyleKeys == {"fill", "fillOpacity", "stroke", "strokeOpacity",
                  "strokeWidth", "strokeDasharray", "strokeDashoffset"}

NodeStyleKeys == {"stroke", "strokeOpacity", "strokeWidth", "fill", "fillOpacity"}

\* nodeProps = {}, linkProps = {}
StyleOf(v) == IF v = Undef THEN EmptyObj ELSE v.o

LinkDNoDefault(gen, link) == PathOf(gen, link)

\* d={path(link) ?? ''}
LinkD(gen, link) == Coalesce(PathOf(gen, link), Str(""))

LinkStrokeWidthUnclamped(link) == Coalesce(link.width, Num(0))

\* strokeWidth={Math.max(1, link.width ?? 0)}
LinkStrokeWidth(link) == Num(Max(Px(1), Coalesce(link.width, Num(0)).v))

\* <path d key fill="transparent" stroke strokeWidth strokeOpacity {...linkProps}/>
LinkElement(gen, link, i, linkProps) ==
    [tag |-> "path", key |-> i, d |-> LinkD(gen, link),
     attrs |-> Merge([fill |-> Str("transparent"),
                      stroke |-> DEFAULT_COLOR,
                      strokeWidth |-> LinkStrokeWidth(link),
                      strokeOpacity |-> Half],
                     linkProps)]

PlacedTruthy(node) ==
    Truthy(node.y0) /\ Truthy(node.y1) /\ Truthy(node.x0) /\ Truthy(node.x1)

\* y0 !== undefined && y1 !== undefined && x0 !== undefined && x1 !== undefined
Placed(node) ==
    node.y0 # Undef /\ node.y1 # Undef /\ node.x0 # Undef /\ node.x1 # Undef

\* <rect fill width height x y key {...nodeProps}/> or null
NodeElement(node, i, nodeProps) ==
    IF Placed(node)
    THEN [tag |-> "rect", key |-> i,
          width |-> Num(node.x1.v - node.x0.v),
          height |-> Num(node.y1.v - node.y0.v),
          x |-> node.x0, y |-> node.y0,
          attrs |-> Merge([fill |-> DEFAULT_COLOR], nodeProps)]
    ELSE Null

RenderModeAlwaysDefault(children) == "default"

\* if (children) ... else the default shapes
RenderMode(children) == IF Truthy(children) THEN "override" ELSE "default"

\* What the caller's render function returns for the argument it is given.
ChildrenReturn(arg) == [t |-> "node", from |-> "children", arg |-> arg]

NoOutput == Undef

(* ------------------------------- inputs ------------------------------- *)
NumValues == {Undef, Num(0), Num(1)}

Extents == {Undef, Arr(<<<<1, 2>>, <<5, 6>>>>)}

Sizes == {Undef, Arr(<<8, 9>>)}

FnOrUndef(name) == {Undef, Fn(name)}

PlacedNode == [x0 |-> Num(0), x1 |-> Num(3), y0 |-> Num(2), y1 |-> Num(7)]

UnplacedNode == [x0 |-> Undef, x1 |-> Undef, y0 |-> Undef, y1 |-> Undef]

\* A node as the engine leaves it: all four bounds numbers, exactly one of
\* them undefined, only two of them defined, or none.
NodeSet ==
    {PlacedNode, UnplacedNode, [UnplacedNode EXCEPT !.x1 = Num(3), !.y1 = Num(7)]}
    \cup {[PlacedNode EXCEPT ![f] = Undef] : f \in {"x0", "x1", "y0", "y1"}}

\* A link as the engine leaves it: width undefined, negative, zero, half a
\* pixel or a pixel and a half; pathless when the generator yields null.
LinkSet ==
    [width : {Undef, Num(-1), Num(0), Num(1), Num(3)}, pathless : {FALSE}]
    \cup [width : {Undef, Num(3)}, pathless : {TRUE}]

SeqsUpTo(S, n) == UNION {[1..k -> S] : k \in 0..n}

TinyRoot == [nodes |-> <<PlacedNode, PlacedNode>>,
             links |-> <<[width |-> Num(3), pathless |-> FALSE]>>,
             valid |-> TRUE]

\* A root one of whose links references a node that is not in the graph.
DanglingRoot == [TinyRoot EXCEPT !.valid = FALSE]

CustomValues(k) ==
    IF k = "strokeWidth" THEN {Num(0), Num(Px(2))} ELSE {Str("custom")}

StyleObjs(keySets) ==
    UNION {{Obj(o) : o \in {f \in [K -> UNION {CustomValues(k) : k \in K}] :
                             \A k \in K : f[k] \in CustomValues(k)}} : K \in keySets}

LinkPropsSet ==
    {Undef} \cup StyleObjs({{}} \cup {{k} : k \in LinkStyleKeys}
                           \cup {{"stroke", "strokeWidth"}, LinkStyleKeys})

NodePropsSet ==
    {Undef} \cup StyleObjs({{}} \cup {{k} : k \in NodeStyleKeys}
                           \cup {{"fill", "stroke"}, NodeStyleKeys})

BaseProps ==
    [root |-> TinyRoot, children |-> Undef,
     nodeId |-> Undef, nodeWidth |-> Undef, nodePadding |-> Undef,
     nodeAlign |-> Undef, extent |-> Undef, size |-> Undef,
     iterations |-> Undef, nodeSort |-> Undef, linkSort |-> Undef,
     nodeProps |-> Undef, linkProps |-> Undef,
     sourceAccessor |-> Undef, targetAccessor |-> Undef]

\* Renders that vary the numeric options, extent and size, over a valid and
\* a dangling root.
NumericRenders ==
    {[BaseProps EXCEPT !.root = r, !.nodeWidth = w, !.nodePadding = pad,
                       !.extent = ex, !.size = sz, !.iterations = it] :
        r \in {TinyRoot, DanglingRoot}, w \in NumValues, pad \in NumValues,
        ex \in Extents, sz \in Sizes, it \in NumValues}

\* Renders that vary the four function-valued layout options.
AccessorRenders ==
    {[BaseProps EXCEPT !.nodeId = id, !.nodeAlign = al, !.nodeSort = ns,
                       !.linkSort = ls, !.iterations = it] :
        id \in FnOrUndef("nodeId"), al \in FnOrUndef("nodeAlign"),
        ns \in FnOrUndef("nodeSort"), ls \in FnOrUndef("linkSort"),
        it \in {Undef, Num(1)}}

ConfigRenders == NumericRenders \cup AccessorRenders

\* Renders that vary the links and their style props.
LinkRenders ==
    {[BaseProps EXCEPT !.root = [nodes |-> <<PlacedNode, PlacedNode>>,
                                 links |-> ls, valid |-> TRUE],
                       !.linkProps = lp] :
        ls \in SeqsUpTo(LinkSet, MaxLinks), lp \in LinkPropsSet}

\* Renders that vary the nodes and their style props.
NodeRenders ==
    {[BaseProps EXCEPT !.root = [nodes |-> ns, links |-> <<>>, valid |-> TRUE],
                       !.nodeProps = np] :
        ns \in SeqsUpTo(NodeSet, MaxNodes), np \in NodePropsSet}

\* Renders that vary the render mode, the accessors and the root's validity.
ModeRenders ==
    {[BaseProps EXCEPT !.root = [nodes |-> ns, links |-> ls, valid |-> ok],
                       !.children = ch, !.nodeProps = np, !.linkProps = lp,
                       !.sourceAccessor = sa, !.targetAccessor = ta] :
        ns \in {<<>>, <<PlacedNode>>, <<PlacedNode, [PlacedNode EXCEPT !.x1 = Undef]>>},
        ls \in {<<>>, <<[width |-> Num(1), pathless |-> FALSE],
                        [width |-> Undef, pathless |-> TRUE]>>},
        ok \in BOOLEAN, ch \in FnOrUndef("children"),
        np \in {Undef, Obj([fill |-> Str("custom")])},
        lp \in {Undef, Obj([strokeWidth |-> Num(0)])},
        sa \in FnOrUndef("sourceAccessor"), ta \in FnOrUndef("targetAccessor")}

PropsSet == ConfigRenders \cup LinkRenders \cup NodeRenders \cup ModeRenders

(* ------------------------------- the render --------------------------- *)
\* An option of the previous render's engine that p leaves unset.
Carried(e, p) ==
    /\ e # Undef
    /\ \E f \in EngineFields :
          /\ e[f] # EngineDefault
          /\ p[f] = Undef
          /\ f = "extent" => p.size = Undef

Init ==
    /\ pc = "idle"
    /\ props = Undef
    /\ engine = Undef
    /\ calls = <<>>
    /\ layoutCalls = 0
    /\ layoutCfg = Undef
    /\ graph = Undef
    /\ pathGen = Undef
    /\ pathCalls = 0
    /\ childrenCalls = 0
    /\ output = NoOutput
    /\ thrown = Undef
    /\ carry = FALSE

\* A render that reuses the engine of the render before it.
BeginRenderStale ==
    /\ pc = "idle"
    /\ \E p \in PropsSet :
          /\ props' = p
          /\ carry' = Carried(engine, p)
    /\ engine' = IF engine = Undef THEN d3sankey ELSE engine
    /\ calls' = <<>>
    /\ layoutCalls' = 0
    /\ layoutCfg' = Undef
    /\ graph' = Undef
    /\ pathGen' = Undef
    /\ pathCalls' = 0
    /\ childrenCalls' = 0
    /\ output' = NoOutput
    /\ thrown' = Undef
    /\ pc' = "config"

\* The component function is entered with this render's props; its locals
\* are new and its first statement creates the engine.
BeginRender ==
    /\ pc = "idle"
    /\ \E p \in PropsSet :
          /\ props' = p
          /\ carry' = Carried(engine, p)
    /\ engine' = d3sankey
    /\ calls' = <<>>
    /\ layoutCalls' = 0
    /\ layoutCfg' = Undef
    /\ graph' = Undef
    /\ pathGen' = Undef
    /\ pathCalls' = 0
    /\ childrenCalls' = 0
    /\ output' = NoOutput
    /\ thrown' = Undef
    /\ pc' = "config"

\* The nine conditional setter statements.
Configure ==
    /\ pc = "config"
    /\ LET c == Configured(engine, <<>>, props, 1)
       IN  /\ engine' = c.engine
           /\ calls' = c.calls
    /\ pc' = "layout"
    /\ UNCHANGED <<props, layoutCalls, layoutCfg, graph, pathGen, pathCalls,
                   childrenCalls, output, thrown, carry>>

\* A layout whose failure is swallowed: rendering goes on with the root.
LayoutSwallow ==
    /\ pc = "layout"
    /\ layoutCalls' = layoutCalls + 1
    /\ layoutCfg' = engine
    /\ graph' = [nodes |-> props.root.nodes, links |-> props.root.links]
    /\ pc' = "path"
    /\ UNCHANGED <<props, engine, calls, pathGen, pathCalls, childrenCalls,
                   output, thrown, carry>>

\* const graph = sankey(root): the engine runs with its configuration and
\* returns the computed graph, or throws and the render ends there.
Layout ==
    /\ pc = "layout"
    /\ layoutCalls' = layoutCalls + 1
    /\ layoutCfg' = engine
    /\ IF props.root.valid
       THEN /\ graph' = [nodes |-> props.root.nodes, links |-> props.root.links]
            /\ pc' = "path"
            /\ UNCHANGED thrown
       ELSE /\ thrown' = [t |-> "error", from |-> "sankey"]
            /\ pc' = "threw"
            /\ UNCHANGED graph
    /\ UNCHANGED <<props, engine, calls, pathGen, pathCalls, childrenCalls,
                   output, carry>>

\* const path = sankeyLinkHorizontal() and its two conditional setters.
MakePath ==
    /\ pc = "path"
    /\ pathGen' = PathGenerator(props)
    /\ pc' = "render"
    /\ UNCHANGED <<props, engine, calls, layoutCalls, layoutCfg, graph,
                   pathCalls, childrenCalls, output, thrown, carry>>

\* return <>{children({ graph })}</>
RenderOverride ==
    /\ pc = "render"
    /\ RenderMode(props.children) = "override"
    /\ childrenCalls' = childrenCalls + 1
    /\ output' = [content |-> ChildrenReturn([graph |-> graph]),
                  paths |-> <<>>, rects |-> <<>>]
    /\ pc' = "done"
    /\ UNCHANGED <<props, engine, calls, layoutCalls, layoutCfg, graph,
                   pathGen, pathCalls, thrown, carry>>

\* The two groups: graph.links.map(...) and graph.nodes.map(...).
RenderDefault ==
    /\ pc = "render"
    /\ RenderMode(props.children) = "default"
    /\ output' =
          [content |-> Null,
           paths |-> [i \in 1..Len(graph.links) |->
                        LinkElement(pathGen, graph.links[i], i, StyleOf(props.linkProps))],
           rects |-> [i \in 1..Len(graph.nodes) |->
                        NodeElement(graph.nodes[i], i, StyleOf(props.nodeProps))]]
    /\ pathCalls' = pathCalls + Len(graph.links)
    /\ pc' = "done"
    /\ UNCHANGED <<props, engine, calls, layoutCalls, layoutCfg, graph,
                   pathGen, childrenCalls, thrown, carry>>

\* The function returns its tree, or the exception leaves it: the render's
\* locals are gone.  The finished render's engine object is kept in the
\* state, unreferenced, so that the next render is seen to replace it.
Return ==
    /\ pc \in {"done", "threw"}
    /\ pc' = "idle"
    /\ props' = Undef
    /\ calls' = <<>>
    /\ layoutCalls' = 0
    /\ layoutCfg' = Undef
    /\ graph' = Undef
    /\ pathGen' = Undef
    /\ pathCalls' = 0
    /\ childrenCalls' = 0
    /\ output' = NoOutput
    /\ thrown' = Undef
    /\ carry' = FALSE
    /\ UNCHANGED engine

Next ==
    \/ BeginRender
    \/ Configure
    \/ Layout
    \/ MakePath
    \/ RenderOverride
    \/ RenderDefault
    \/ Return

Spec == Init /\ [][Next]_vars

(* ------------------------------- claims ------------------------------- *)
Configuring == pc \in {"layout", "path", "render", "done", "threw"}

LaidOut == layoutCalls >= 1

DoneDefault == pc = "done" /\ props.children = Undef

DoneOverride == pc = "done" /\ props.children # Undef

\* The style object v has an own key k.
Supplies(v, k) == v # Undef /\ k \in DOMAIN v.o

CallsOf(opt) == {i \in 1..Len(calls) : calls[i].opt = opt}

\* C1: once the setters have run, each option's setter was invoked exactly
\* when the option is not undefined, once and with the supplied value
\* (the number 0 included).
C1_SetterIffProvided ==
    Configuring =>
        \A opt \in Options :
            /\ props[opt] # Undef <=> CallsOf(opt) # {}
            /\ Cardinality(CallsOf(opt)) <= 1
            /\ \A i \in CallsOf(opt) : calls[i].arg = props[opt]

\* C2: when the render is given iterations 0 or 1, the engine runs the
\* layout with exactly that iteration count, never with its default.
C2_ZeroOrOneIterations ==
    (LaidOut /\ props.iterations \in {Num(0), Num(1)}) =>
        layoutCfg.iterations = props.iterations

\* C3 (as claimed): in default mode every rendered link path has a stroke
\* width of at least one pixel, whatever linkProps holds.
C3_StrokeWidthAtLeastOne ==
    DoneDefault =>
        \A i \in 1..Len(output.paths) :
            output.paths[i].attrs.strokeWidth.v >= Px(1)

\* C3 (amended): in default mode a link path whose linkProps has no
\* strokeWidth key has stroke width max(1, link.width ?? 0), at least one
\* pixel for every computed width; with a strokeWidth key in linkProps the
\* path has exactly the supplied stroke width.
C3_StrokeWidthClampedUnlessOverridden ==
    DoneDefault =>
        \A i \in 1..Len(output.paths) :
            LET w == graph.links[i].width
                sw == output.paths[i].attrs.strokeWidth
            IN  IF Supplies(props.linkProps, "strokeWidth")
                THEN sw = props.linkProps.o.strokeWidth
                ELSE /\ sw.v >= Px(1)
                     /\ (w # Undef /\ w.v >= Px(1)) => sw = w
                     /\ (w = Undef \/ w.v < Px(1)) => sw = Num(Px(1))

C3_Witness ==
    /\ DoneDefault
    /\ ~Supplies(props.linkProps, "strokeWidth")
    /\ \E i, j \in 1..Len(output.paths) :
          /\ graph.links[i].width = Num(1)
          /\ output.paths[i].attrs.strokeWidth = Num(Px(1))
          /\ graph.links[j].width = Num(-1)
          /\ output.paths[j].attrs.strokeWidth = Num(Px(1))

\* C4: a render given children calls it exactly once with { graph }, graph
\* being what the render's single layout invocation returned; the output is
\* what children returned, with no default path or rect and independent of
\* nodeProps and linkProps; a render without children never calls one.
C4_OverrideExcludesDefault ==
    /\ DoneOverride =>
          /\ childrenCalls = 1
          /\ layoutCalls = 1
          /\ graph = [nodes |-> props.root.nodes, links |-> props.root.links]
          /\ output = [content |-> ChildrenReturn([graph |-> graph]),
                       paths |-> <<>>, rects |-> <<>>]
          /\ pathCalls = 0
    /\ DoneDefault => childrenCalls = 0 /\ output.content = Null

C4_Witness ==
    /\ DoneOverride
    /\ Len(graph.nodes) > 0
    /\ Len(graph.links) > 0
    /\ props.nodeProps # Undef
    /\ props.linkProps # Undef
    /\ output.content.arg.graph = graph

\* C5: in default mode node i yields a rect exactly when its four bounds
\* are all defined, with x = x0, y = y0, width = x1 - x0, height = y1 - y0;
\* any other node yields nothing, so the rects are the fully bounded nodes
\* in node order.
C5_RectIffFullyBounded ==
    DoneDefault =>
        /\ Len(output.rects) = Len(graph.nodes)
        /\ \A i \in 1..Len(graph.nodes) :
              LET n == graph.nodes[i]
                  r == output.rects[i]
              IN  IF n.x0 # Undef /\ n.x1 # Undef /\ n.y0 # Undef /\ n.y1 # Undef
                  THEN /\ r # Null
                       /\ r.tag = "rect"
                       /\ r.key = i
                       /\ r.x = n.x0
                       /\ r.y = n.y0
                       /\ r.width = Num(n.x1.v - n.x0.v)
                       /\ r.height = Num(n.y1.v - n.y0.v)
                  ELSE r = Null

C5_Witness ==
    /\ DoneDefault
    /\ Len(graph.nodes) = 2
    /\ graph.nodes[1].y1 = Undef
    /\ output.rects[1] = Null
    /\ output.rects[2] # Null
    /\ output.rects[2].width = Num(3)
    /\ output.rects[2].height = Num(5)

\* C6 (as claimed): in default mode the path elements emitted are as many
\* as the links for which the generator returns a path.
C6_PathlessLinkOmitted ==
    DoneDefault =>
        Len(output.paths) =
            Cardinality({i \in 1..Len(graph.links) : ~graph.links[i].pathless})

\* C6 (amended): in default mode every link yields a path element, the
\* generator being applied once per link; a link for which it returns no
\* path is emitted with the empty path d = '', and rendering does not fail.
C6_PathlessLinkEmittedEmpty ==
    DoneDefault =>
        /\ Len(output.paths) = Len(graph.links)
        /\ pathCalls = Len(graph.links)
        /\ thrown = Undef
        /\ \A i \in 1..Len(graph.links) :
              /\ output.paths[i].tag = "path"
              /\ output.paths[i].key = i
              /\ output.paths[i].d.t = "string"
              /\ graph.links[i].pathless <=> output.paths[i].d = Str("")

C6_Witness ==
    /\ DoneDefault
    /\ Len(graph.links) = 2
    /\ graph.links[1].pathless
    /\ ~graph.links[2].pathless
    /\ output.paths[1].d = Str("")
    /\ output.paths[2].d.s = "M"

\* The documented default of style property k, when it has one.
LinkDefaultOf(k, link) ==
    CASE k = "fill" -> Str("transparent")
      [] k = "stroke" -> Str("#000")
      [] k = "strokeOpacity" -> Half
      [] k = "strokeWidth" ->
            IF link.width # Undef /\ link.width.v > Px(1)
            THEN link.width ELSE Num(Px(1))

\* C7: in default mode each style property missing from linkProps or
\* nodeProps has its documented default on the element (no attribute when
\* it has none), and each supplied property has the supplied value, the
\* other properties keeping their defaults.
C7_StyleDefaultsAndOverrides ==
    DoneDefault =>
        /\ \A i \in 1..Len(output.paths) :
              LET a == output.paths[i].attrs
              IN  \A k \in LinkStyleKeys :
                    IF Supplies(props.linkProps, k)
                    THEN k \in DOMAIN a /\ a[k] = props.linkProps.o[k]
                    ELSE IF k \in {"fill", "stroke", "strokeOpacity", "strokeWidth"}
                         THEN k \in DOMAIN a /\ a[k] = LinkDefaultOf(k, graph.links[i])
                         ELSE k \notin DOMAIN a
        /\ \A i \in 1..Len(output.rects) :
              output.rects[i] # Null =>
                  LET a == output.rects[i].attrs
                  IN  \A k \in NodeStyleKeys :
                        IF Supplies(props.nodeProps, k)
                        THEN k \in DOMAIN a /\ a[k] = props.nodeProps.o[k]
                        ELSE IF k = "fill"
                             THEN k \in DOMAIN a /\ a[k] = Str("#000")
                             ELSE k \notin DOMAIN a

C7_Witness ==
    /\ DoneDefault
    /\ Supplies(props.linkProps, "stroke")
    /\ Supplies(props.linkProps, "strokeWidth")
    /\ ~Supplies(props.linkProps, "fill")
    /\ \E i \in 1..Len(output.paths) :
          /\ output.paths[i].attrs.stroke = Str("custom")
          /\ output.paths[i].attrs.fill = Str("transparent")
          /\ output.paths[i].attrs.strokeOpacity = Half

\* C8: when the layout invocation fails, the render ends with the engine's
\* error propagated: children is not called, the path generator is neither
\* created nor applied, and nothing is output, whatever the render mode.
C8_LayoutFailureRendersNothing ==
    (LaidOut /\ ~props.root.valid) =>
        /\ pc = "threw"
        /\ thrown = [t |-> "error", from |-> "sankey"]
        /\ childrenCalls = 0
        /\ pathGen = Undef
        /\ pathCalls = 0
        /\ output = NoOutput

C8_Witness ==
    /\ pc = "threw"
    /\ ~props.root.valid
    /\ props.children # Undef
    /\ Len(props.root.links) > 0
    /\ output = NoOutput

\* C9: every render starts from a new engine and a new path generator and
\* applies the layout once, so an option this render's props omit is at the
\* engine default when the layout runs, whatever earlier renders supplied,
\* and a setting other than the default comes from this render's props.
C9_NoStateAcrossRenders ==
    /\ pc = "config" => engine = d3sankey /\ pathGen = Undef
    /\ LaidOut =>
          /\ layoutCalls = 1
          /\ \A f \in EngineFields \ {"extent"} :
                props[f] = Undef => layoutCfg[f] = EngineDefault
          /\ \A f \in EngineFields \ {"extent"} :
                layoutCfg[f] \in {EngineDefault, props[f]}
          /\ (props.extent = Undef /\ props.size = Undef) =>
                layoutCfg.extent = EngineDefault
    /\ pc \in {"render", "done"} =>
          /\ props.sourceAccessor = Undef => pathGen.source = EngineDefault
          /\ props.targetAccessor = Undef => pathGen.target = EngineDefault

C9_Witness ==
    /\ carry
    /\ pc = "done"
    /\ layoutCalls = 1
    /\ props.nodeWidth = Undef
    /\ layoutCfg.nodeWidth = EngineDefault

\* C10: the extent setter is invoked before the size setter and every
\* setter before the layout runs, so with extent and size both supplied the
\* layout runs with the extent [[0, 0], size], and with extent alone it
\* runs with the supplied extent.
C10_ExtentBeforeSize ==
    /\ \A i, j \in 1..Len(calls) :
          (calls[i].opt = "extent" /\ calls[j].opt = "size") => i < j
    /\ pc = "layout" => layoutCalls = 0
    /\ LaidOut =>
          /\ layoutCfg = engine
          /\ (props.extent # Undef /\ props.size # Undef) =>
                layoutCfg.extent = Arr(<<<<0, 0>>, props.size.a>>)
          /\ (props.extent # Undef /\ props.size = Undef) =>
                layoutCfg.extent = props.extent

C10_Witness ==
    /\ pc = "done"
    /\ props.extent # Undef
    /\ props.size # Undef
    /\ Len(calls) >= 2
    /\ layoutCfg.extent = Arr(<<<<0, 0>>, <<8, 9>>>>)

====
